---- MODULE Spec2Model ----
(***************************************************************************)
(* Model of src/main.py: the Telegram webhook gateway with its two         *)
(* per-user sliding-window rate limiters (text and image), the allow-list  *)
(* gates, command parsing and group mention handling.                      *)
(*                                                                         *)
(* Time is counted in ticks; one second is TicksPerSecond ticks, so that   *)
(* the truncation int(...) of a fractional number of seconds is visible.   *)
(* Texts are sequences of one-character strings.                           *)
(***************************************************************************)
EXTENDS Integers, Sequences, FiniteSets, TLC

VARIABLES
    now,                  \* the wall clock read by time.time(), in ticks
    user_requests,        \* dict user id -> list of timestamps (text)
    user_image_requests,  \* dict user id -> list of timestamps (image)
    ALLOWED_USERS,        \* set loaded from the environment at start
    ALLOWED_GROUPS,       \* set loaded from the environment at start
    handlers,             \* the webhook invocations: position and outcome
    traffic,              \* what the environment sends in this run
    admitted,             \* history: per class and user, the admitted
                          \* requests whose timestamp is still inside the
                          \* trailing window ending at `now`
    refused,              \* history: per class and user, whether a request
                          \* has been rejected
    arg,                  \* the text handed to a text function on its own
    result                \* what the function returned

vars == <<now, user_requests, user_image_requests, ALLOWED_USERS,
          ALLOWED_GROUPS, handlers, traffic, admitted, refused, arg, result>>

-----------------------------------------------------------------------------
(* Program constants (src/main.py:28-35, 44)                               *)

RATE_LIMIT == 10
RATE_WINDOW == 60
MAX_INPUT_LENGTH == 2000
IMAGE_RATE_LIMIT == 5
IMAGE_RATE_WINDOW == 300
REQUIRE_MENTION_IN_GROUPS == TRUE

(* Bounds of the model                                                     *)

TicksPerSecond == 2
MaxHandlers == 2

TextWindowTicks == RATE_WINDOW * TicksPerSecond
ImageWindowTicks == IMAGE_RATE_WINDOW * TicksPerSecond

(* The instants at which the environment lets something happen: the start, *)
(* the tick after it, and one tick before, at, and one tick after the end  *)
(* of a window counted from the start.  A run with text traffic watches    *)
(* the text window, one with image traffic the image window, one with both *)
(* kinds the start and the end of the text window; a burst happens within  *)
(* one tick.                                                               *)
Around(window) == {0, 1, window - 1, window, window + 1}

Instants ==
    IF traffic = "text" THEN Around(TextWindowTicks)
    ELSE IF traffic = "image" THEN Around(ImageWindowTicks)
    ELSE IF traffic = "both" THEN {0, TextWindowTicks}
    ELSE {0}

Users == {1, 2}
Handlers == 1..MaxHandlers
Classes == {"text", "image"}

-----------------------------------------------------------------------------
(* Python helpers                                                          *)

\* dict.get(key, []) on a dict modelled as a function on its keys
Get(d, k) == IF k \in DOMAIN d THEN d[k] ELSE <<>>

\* d[key] = value
Put(d, k, v) == [x \in (DOMAIN d) \cup {k} |-> IF x = k THEN v ELSE d[x]]

\* int(x) for x = r ticks, in seconds: truncation toward zero
IntSeconds(r) ==
    IF r >= 0 THEN r \div TicksPerSecond ELSE 0 - ((0 - r) \div TicksPerSecond)

\* [t for t in timestamps if now - t < window]
RECURSIVE Fresh(_, _, _)
Fresh(ts, t, window) ==
    IF ts = <<>> THEN <<>>
    ELSE IF t - Head(ts) < window
         THEN <<Head(ts)>> \o Fresh(Tail(ts), t, window)
         ELSE Fresh(Tail(ts), t, window)

-----------------------------------------------------------------------------
(* Strings: a text is a sequence of one-character strings                  *)

Whitespace == {" ", "\t", "\n"}

UpperCase == <<"A", "B", "C", "D", "E", "F", "G", "H", "I", "J", "K", "L", "M",
               "N", "O", "P", "Q", "R", "S", "T", "U", "V", "W", "X", "Y", "Z">>
LowerCase == <<"a", "b", "c", "d", "e", "f", "g", "h", "i", "j", "k", "l", "m",
               "n", "o", "p", "q", "r", "s", "t", "u", "v", "w", "x", "y", "z">>
Digits == {"0", "1", "2", "3", "4", "5", "6", "7", "8", "9"}

\* the regular expression class \w
WordChars ==
    {UpperCase[i] : i \in 1..26} \cup {LowerCase[i] : i \in 1..26}
        \cup Digits \cup {"_"}

\* one character of str.lower()
LowerChar(c) ==
    IF \E i \in 1..26 : UpperCase[i] = c
    THEN LowerCase[CHOOSE i \in 1..26 : UpperCase[i] = c]
    ELSE c

\* str.lower()
Lower(t) == [i \in 1..Len(t) |-> LowerChar(t[i])]

SetMin(S) == CHOOSE x \in S : \A y \in S : x <= y
SetMax(S) == CHOOSE x \in S : \A y \in S : x >= y

\* str.strip()
Strip(t) ==
    IF t = <<>> THEN <<>>
    ELSE IF t[1] \notin Whitespace /\ t[Len(t)] \notin Whitespace THEN t
    ELSE LET solid == {i \in 1..Len(t) : t[i] \notin Whitespace}
         IN  IF solid = {} THEN <<>>
             ELSE SubSeq(t, SetMin(solid), SetMax(solid))

\* str.startswith(prefix)
StartsWith(t, prefix) ==
    Len(t) >= Len(prefix) /\ SubSeq(t, 1, Len(prefix)) = prefix

\* prefix in t
Contains(t, part) ==
    \E i \in 1..(Len(t) - Len(part) + 1) : SubSeq(t, i, i + Len(part) - 1) = part

\* t[offset:offset+length]
Slice(t, offset, length) ==
    SubSeq(t, offset + 1, IF offset + length > Len(t) THEN Len(t) ELSE offset + length)

\* t.split(" ", 1)
SplitOnce(t) ==
    IF \E i \in 1..Len(t) : t[i] = " "
    THEN LET i == SetMin({j \in 1..Len(t) : t[j] = " "})
         IN  <<SubSeq(t, 1, i - 1), SubSeq(t, i + 1, Len(t))>>
    ELSE <<t>>

\* the user name returned by bot.get_me() at start
BOT_USERNAME == <<"m", "y", "b", "o", "t">>

\* f"@{bot_username}"
MentionPattern(bot_username) == <<"@">> \o bot_username

\* re.sub(f"@{bot_username}", "", text, flags=re.IGNORECASE): the
\* non-overlapping matches, leftmost first, are removed
RECURSIVE RemoveAll(_, _)
RemoveAll(t, pattern) ==
    IF Len(t) < Len(pattern) THEN t
    ELSE IF Lower(SubSeq(t, 1, Len(pattern))) = Lower(pattern)
         THEN RemoveAll(SubSeq(t, Len(pattern) + 1, Len(t)), pattern)
         ELSE <<Head(t)>> \o RemoveAll(Tail(t), pattern)

\* the length of the longest run of \w characters at the head of t
RECURSIVE WordRun(_)
WordRun(t) ==
    IF t # <<>> /\ Head(t) \in WordChars THEN 1 + WordRun(Tail(t)) ELSE 0

\* re.sub(f"(/\w+)@{bot_username}", r"\1", text, flags=re.IGNORECASE)
RECURSIVE UnsuffixCommands(_, _)
UnsuffixCommands(t, pattern) ==
    IF t = <<>> THEN <<>>
    ELSE LET run  == WordRun(Tail(t))
             rest == SubSeq(t, run + 2, Len(t))
         IN  IF /\ Head(t) = "/"
                /\ run >= 1
                /\ Len(rest) >= Len(pattern)
                /\ Lower(SubSeq(rest, 1, Len(pattern))) = Lower(pattern)
             THEN SubSeq(t, 1, run + 1)
                    \o UnsuffixCommands(SubSeq(rest, Len(pattern) + 1, Len(rest)), pattern)
             ELSE <<Head(t)>> \o UnsuffixCommands(Tail(t), pattern)

is_group_chat(chat_type) == chat_type \in {"group", "supergroup"}

\* (variant: the handle is compared with its casing)
is_bot_mentionedCaseSensitive(text, entities, bot_username) ==
    IF text = <<>> \/ bot_username = <<>> THEN FALSE
    ELSE LET mention_pattern == MentionPattern(bot_username)
         IN  \/ Contains(text, mention_pattern)
             \/ \E k \in 1..Len(entities) :
                    \/ /\ entities[k].type = "mention"
                       /\ Slice(text, entities[k].offset, entities[k].length)
                              = mention_pattern
                    \/ /\ entities[k].type = "bot_command"
                       /\ Contains(Slice(text, entities[k].offset,
                                         entities[k].length),
                                   mention_pattern)

is_bot_mentioned(text, entities, bot_username) ==
    IF text = <<>> \/ bot_username = <<>> THEN FALSE
    ELSE LET mention_pattern == MentionPattern(bot_username)
         IN  \/ Contains(Lower(text), Lower(mention_pattern))
             \/ \E k \in 1..Len(entities) :
                    \/ /\ entities[k].type = "mention"
                       /\ Lower(Slice(text, entities[k].offset, entities[k].length))
                              = Lower(mention_pattern)
                    \/ /\ entities[k].type = "bot_command"
                       /\ Contains(Lower(Slice(text, entities[k].offset,
                                               entities[k].length)),
                                   Lower(mention_pattern))

remove_bot_mention(text, bot_username) ==
    IF text = <<>> \/ bot_username = <<>> THEN text
    ELSE Strip(UnsuffixCommands(RemoveAll(text, MentionPattern(bot_username)),
                                MentionPattern(bot_username)))

CmdBild == <<"/", "b", "i", "l", "d", " ">>
CmdGenerate == <<"/", "g", "e", "n", "e", "r", "a", "t", "e", " ">>
CmdEdit == <<"/", "e", "d", "i", "t", " ">>
CmdBearbeite == <<"/", "b", "e", "a", "r", "b", "e", "i", "t", "e", " ">>
CmdVariation == <<"/", "v", "a", "r", "i", "a", "t", "i", "o", "n">>
CmdVariante == <<"/", "v", "a", "r", "i", "a", "n", "t", "e">>
HelpCommands == {<<"/", "h", "e", "l", "p">>, <<"/", "h", "i", "l", "f", "e">>, <<"/", "s", "t", "a", "r", "t">>}

\* (variant: the command token is matched in any casing)
parse_image_commandAnyCase(text) ==
    LET t     == Strip(text)
        parts == SplitOnce(t)
        rest  == IF Len(parts) > 1 THEN parts[2] ELSE <<>>
    IN  IF StartsWith(Lower(t), CmdBild) \/ StartsWith(Lower(t), CmdGenerate)
        THEN [command |-> "generate", prompt |-> rest]
        ELSE IF StartsWith(Lower(t), CmdEdit) \/ StartsWith(Lower(t), CmdBearbeite)
        THEN [command |-> "edit", prompt |-> rest]
        ELSE IF StartsWith(Lower(t), CmdVariation) \/ StartsWith(Lower(t), CmdVariante)
        THEN [command |-> "variation", prompt |-> <<>>]
        ELSE [command |-> "text", prompt |-> t]

parse_image_command(text) ==
    LET t     == Strip(text)
        parts == SplitOnce(t)
        rest  == IF Len(parts) > 1 THEN parts[2] ELSE <<>>
    IN  IF StartsWith(t, CmdBild) \/ StartsWith(t, CmdGenerate)
        THEN [command |-> "generate", prompt |-> rest]
        ELSE IF StartsWith(t, CmdEdit) \/ StartsWith(t, CmdBearbeite)
        THEN [command |-> "edit", prompt |-> rest]
        ELSE IF StartsWith(t, CmdVariation) \/ StartsWith(t, CmdVariante)
        THEN [command |-> "variation", prompt |-> <<>>]
        ELSE [command |-> "text", prompt |-> t]

-----------------------------------------------------------------------------
(* The two sliding-window limiters                                         *)

\* timestamps = user_requests.get(user_id, [])
TextStored(user_id) == Get(user_requests, user_id)

\* (variant: nothing is pruned)
TextFreshNoPrune(timestamps) == timestamps

\* timestamps = [t for t in timestamps if now - t < RATE_WINDOW]
TextFresh(timestamps) == Fresh(timestamps, now, TextWindowTicks)

\* (variant: the comparison lets one request more through)
TextOverLimitOffByOne(timestamps) == Len(timestamps) > RATE_LIMIT

\* len(timestamps) >= RATE_LIMIT
TextOverLimit(timestamps) == Len(timestamps) >= RATE_LIMIT

\* (variant: the list is written back without the new timestamp, as when
\* a concurrent writer's copy overwrites the append)
TextRecordedLost(user_id, timestamps) ==
    Put(user_requests, user_id, timestamps)

\* The dict after an admitted call: timestamps.append(now);
\* user_requests[user_id] = timestamps
TextRecorded(user_id, timestamps) ==
    Put(user_requests, user_id, Append(timestamps, now))

\* is_rate_limited(user_id): the result and the dict it leaves
is_rate_limited(user_id) ==
    LET timestamps == TextFresh(TextStored(user_id))
    IN  IF TextOverLimit(timestamps)
        THEN [limited |-> TRUE, requests |-> user_requests]
        ELSE [limited |-> FALSE, requests |-> TextRecorded(user_id, timestamps)]

\* (variant: the image limiter reads the text limiter's dict)
ImageStoredShared(user_id) == Get(user_requests, user_id)

\* timestamps = user_image_requests.get(user_id, [])
ImageStored(user_id) == Get(user_image_requests, user_id)

\* (variant: entries are pruned one second late)
ImageFreshLate(timestamps) ==
    Fresh(timestamps, now, ImageWindowTicks + TicksPerSecond)

\* timestamps = [t for t in timestamps if now - t < IMAGE_RATE_WINDOW]
ImageFresh(timestamps) == Fresh(timestamps, now, ImageWindowTicks)

\* (variant: the comparison lets one request more through)
ImageOverLimitOffByOne(timestamps) == Len(timestamps) > IMAGE_RATE_LIMIT

\* len(timestamps) >= IMAGE_RATE_LIMIT
ImageOverLimit(timestamps) == Len(timestamps) >= IMAGE_RATE_LIMIT

\* remaining = int(timestamps[0] + IMAGE_RATE_WINDOW - now)
ImageRemaining(timestamps) ==
    IntSeconds(timestamps[1] + ImageWindowTicks - now)

\* (variant: the new timestamp is put in front of the list)
ImageRecordedInFront(user_id, timestamps) ==
    Put(user_image_requests, user_id, <<now>> \o timestamps)

\* timestamps.append(now); user_image_requests[user_id] = timestamps
ImageRecorded(user_id, timestamps) ==
    Put(user_image_requests, user_id, Append(timestamps, now))

\* is_image_rate_limited(user_id): the result pair and the dict it leaves
is_image_rate_limited(user_id) ==
    LET timestamps == ImageFresh(ImageStored(user_id))
    IN  IF ImageOverLimit(timestamps)
        THEN [limited |-> TRUE, remaining |-> ImageRemaining(timestamps),
              requests |-> user_image_requests]
        ELSE [limited |-> FALSE, remaining |-> 0,
              requests |-> ImageRecorded(user_id, timestamps)]

\* remaining = user_requests[user_id][0] + RATE_WINDOW - time.time(), shown
\* as int(remaining); time.time() is read again and returns `later`
TextRemaining(user_id, later) ==
    IntSeconds(user_requests[user_id][1] + TextWindowTicks - later)

\* What a second time.time() in the same handler can return: the same tick,
\* or the next one when the clock's grid has it
LaterReads == {now} \cup ({now + 1} \cap Instants)

-----------------------------------------------------------------------------
(* Inbound webhook bodies                                                  *)

TextEmpty == <<>>
TextHello == <<"h", "e", "l", "l", "o">>
TextSpaces == <<" ", " ">>
TextHelp == <<"/", "h", "e", "l", "p">>
TextBild == <<"/", "b", "i", "l", "d", " ", "a", " ", "c", "a", "t">>
TextBildBare == <<"/", "b", "i", "l", "d">>
TextEditBare == <<"/", "e", "d", "i", "t">>
TextEdit == <<"/", "e", "d", "i", "t", " ", "b", "l", "u", "e">>
TextVariation == <<"/", "v", "a", "r", "i", "a", "t", "i", "o", "n">>
TextMention == <<"@", "m", "y", "b", "o", "t", " ", "h", "e", "l", "l", "o">>
TextMentionOnly == <<"@", "M", "y", "B", "o", "t">>
TextBildMention == <<"/", "b", "i", "l", "d", "@", "m", "y", "b", "o", "t", " ", "a", " ", "c", "a", "t">>
TextHelpMention == <<"/", "h", "e", "l", "p", "@", "m", "y", "b", "o", "t">>
TextLong == [i \in 1..(MAX_INPUT_LENGTH + 1) |-> "a"]

Texts ==
    {TextEmpty, TextHello, TextSpaces, TextHelp, TextBild, TextBildBare,
     TextEdit, TextVariation, TextMention, TextMentionOnly, TextBildMention,
     TextHelpMention, TextLong, TextEditBare}

NoUser == 0          \* message.get("from", {}).get("id") is None
AllowedGroup == 0 - 100
OtherGroup == 0 - 200
BotId == 99          \* (await bot.get_me()).id

\* A request body. shape: "bad_json" (req.json() raises JSONDecodeError),
\* "no_message" (no "message" field) or "message".
Body(shape, from, chat_id, chat_type, text, caption, has_photo, reply, entities) ==
    [shape |-> shape, from |-> from, chat_id |-> chat_id, chat_type |-> chat_type,
     text |-> text, caption |-> caption, has_photo |-> has_photo,
     reply_to |-> reply, entities |-> entities]

\* the entity Telegram attaches to a command at the start of a text
CommandEntity(t) ==
    IF t # <<>> /\ t[1] = "/"
    THEN <<[type |-> "bot_command", offset |-> 0,
            length |-> IF \E i \in 1..Len(t) : t[i] = " "
                       THEN SetMin({i \in 1..Len(t) : t[i] = " "}) - 1
                       ELSE Len(t)]>>
    ELSE <<>>

\* A text message, or a photo with the text as its caption
Message(from, chat_id, chat_type, t, has_photo, reply) ==
    Body("message", from, chat_id, chat_type,
         IF has_photo THEN <<>> ELSE t, IF has_photo THEN t ELSE <<>>,
         has_photo, reply, CommandEntity(t))

NoMessage == Body("no_message", NoUser, 0, "private", <<>>, <<>>, FALSE, 0, <<>>)
BadJson == Body("bad_json", NoUser, 0, "private", <<>>, <<>>, FALSE, 0, <<>>)

\* The bodies the environment delivers.  reply_to is the id of the sender
\* of the message replied to, 0 when the message is no reply.
Malformed == {NoMessage, BadJson, Message(NoUser, 1, "private", TextHello, FALSE, 0)}

\* texts that reach the text limiter or stop before it
TextTraffic ==
    Malformed
      \cup {Message(u, u, "private", t, FALSE, 0) :
                u \in Users,
                t \in {TextEmpty, TextHello, TextSpaces, TextHelp, TextBildBare, TextLong}}
      \cup {Message(u, u, "private", TextHello, p, r) :
                u \in Users, p \in BOOLEAN, r \in {BotId, 1}}
      \cup {Message(u, AllowedGroup, "supergroup", t, FALSE, r) :
                u \in Users, r \in {0, BotId},
                t \in {TextHello, TextMention, TextMentionOnly, TextHelpMention}}
      \cup {Message(u, AllowedGroup, "group", TextHello, FALSE, 1) : u \in Users}
      \cup {Message(u, OtherGroup, "group", TextMention, FALSE, 0) : u \in Users}
      \cup {Message(1, 1, "private", TextEditBare, TRUE, 0)}

\* image commands
ImageTraffic ==
    {Message(u, u, "private", t, p, 0) :
          u \in Users, t \in {TextBild, TextEdit, TextVariation}, p \in BOOLEAN}
      \cup {Message(u, AllowedGroup, "supergroup", TextBildMention, FALSE, r) :
                u \in Users, r \in {0, BotId}}

\* chat and image commands side by side
BothTraffic ==
    {Message(u, u, "private", t, FALSE, 0) :
          u \in Users, t \in {TextHello, TextBild, TextVariation}}

\* mentions in a group and private chat
OpenTraffic ==
    {Message(u, c, IF c = u THEN "private" ELSE "supergroup", t, FALSE, 0) :
          u \in Users, c \in {1, 2, AllowedGroup, OtherGroup},
          t \in {TextMention, TextHelpMention}}

\* several chats and image commands of one user in flight at once
BurstTraffic ==
    {Message(1, 1, "private", t, FALSE, r) :
          t \in {TextHello, TextBild}, r \in {0, BotId}}

Messages == TextTraffic \cup ImageTraffic \cup BothTraffic \cup OpenTraffic \cup BurstTraffic

Delivered ==
    IF traffic = "text" THEN TextTraffic
    ELSE IF traffic = "image" THEN ImageTraffic
    ELSE IF traffic = "both" THEN BothTraffic
    ELSE IF traffic = "open" THEN OpenTraffic
    ELSE BurstTraffic

-----------------------------------------------------------------------------
(* One invocation of telegram_webhook.  Its record keeps the position      *)
(* (pc: the await it is suspended at) and what it has done so far.         *)

Idle ==
    [pc |-> "idle", msg |-> NoMessage, is_reply_to_bot |-> FALSE,
     path |-> "none", user |-> NoUser, group |-> FALSE, command |-> "none",
     valid |-> FALSE, blank |-> FALSE, addressed |-> FALSE, bare |-> FALSE,
     checked |-> "none", limited |-> FALSE,
     shown |-> 0, replies |-> 0, completions |-> 0, images |-> 0,
     indicator_failed |-> FALSE, raised |-> FALSE, status |-> 0]

\* return {"ok": True} (or the dict of the top-level handler): HTTP 200
Returned(r, path) == [r EXCEPT !.pc = "done", !.path = path, !.status = 200]

\* await send_safe_message(...); return {"ok": True}
Answered(r, path) ==
    [r EXCEPT !.pc = "send", !.path = path, !.replies = @ + 1]

\* (variant: the exception is not caught and leaves the handler, which the
\* server answers with status 500)
RaisedUncaught(r) == [r EXCEPT !.pc = "done", !.raised = TRUE, !.status = 500]

\* except Exception: return {"ok": False, "error": str(e)}
Raised(r) == [r EXCEPT !.pc = "done", !.raised = TRUE, !.status = 200]

\* lines 524-531: a photo's caption replaces the text
EffectiveText(m) == IF m.has_photo /\ m.caption # <<>> THEN m.caption ELSE m.text

\* (variant: the allow-list is consulted for groups only)
UnlistedGroupsOnly(user_id, is_group) ==
    is_group /\ ALLOWED_USERS # {} /\ user_id \notin ALLOWED_USERS

\* lines 567 and 579: the identity allow-list, for private chats and groups
Unlisted(user_id, is_group) ==
    \/ ~is_group /\ user_id \notin ALLOWED_USERS
    \/ is_group /\ ALLOWED_USERS # {} /\ user_id \notin ALLOWED_USERS

\* lines 547: the group allow-list
GroupRefused(chat_id) == ALLOWED_GROUPS # {} /\ chat_id \notin ALLOWED_GROUPS

\* the text is one a chat message may carry to the completion call
ValidChat(text) ==
    /\ text # <<>>
    /\ Strip(text) # <<>>
    /\ Len(text) <= MAX_INPUT_LENGTH

\* lines 626-771 up to the first await: the image commands
ImageGate(r, m, command, no_prompt) ==
    LET check == is_image_rate_limited(r.user)
        c     == [r EXCEPT !.checked = "image", !.limited = check.limited,
                           !.shown = check.remaining]
        h     == IF check.limited THEN Answered(c, "image_limited")
                 ELSE IF command = "generate"
                 THEN IF no_prompt THEN Answered(c, "missing_prompt")
                      ELSE [Answered(c, "generate") EXCEPT !.pc = "progress"]
                 ELSE IF command = "edit"
                 THEN IF ~m.has_photo THEN Answered(c, "no_photo")
                      ELSE IF no_prompt THEN Answered(c, "missing_description")
                      ELSE [Answered(c, "edit") EXCEPT !.pc = "progress"]
                 ELSE IF ~m.has_photo THEN Answered(c, "no_photo")
                      ELSE [Answered(c, "variation") EXCEPT !.pc = "progress"]
    IN  [h |-> h, requests |-> user_requests, image_requests |-> check.requests,
         clock |-> now]

\* (variant: the length of the text is not validated)
TextGateNoLengthCheck(r, reading, later) ==
    LET check == is_rate_limited(r.user)
        c     == [r EXCEPT !.checked = "text", !.limited = check.limited]
        h     == IF check.limited
                 THEN IF r.user \in DOMAIN user_requests
                             /\ user_requests[r.user] # <<>>
                      THEN Answered([c EXCEPT !.shown = TextRemaining(r.user, later)],
                                    "text_limited")
                      ELSE Raised(c)
                 ELSE IF reading.blank THEN Returned(c, "empty")
                 ELSE [c EXCEPT !.pc = "typing", !.path = "chat"]
    IN  [h |-> h, requests |-> check.requests, image_requests |-> user_image_requests,
         clock |-> IF check.limited THEN later ELSE now]

\* lines 778-815 up to the first await: the plain chat
TextGate(r, reading, later) ==
    LET check == is_rate_limited(r.user)
        c     == [r EXCEPT !.checked = "text", !.limited = check.limited]
        h     == IF check.limited
                 THEN IF r.user \in DOMAIN user_requests
                             /\ user_requests[r.user] # <<>>
                      THEN Answered([c EXCEPT !.shown = TextRemaining(r.user, later)],
                                    "text_limited")
                      ELSE Raised(c)
                 ELSE IF reading.blank THEN Returned(c, "empty")
                 ELSE IF reading.length > MAX_INPUT_LENGTH THEN Answered(c, "too_long")
                 ELSE [c EXCEPT !.pc = "typing", !.path = "chat"]
    IN  [h |-> h, requests |-> check.requests, image_requests |-> user_image_requests,
         clock |-> IF check.limited THEN later ELSE now]

\* What lines 524-531, 543, 553-562, 586-589 and 791-795 compute from the
\* body alone: the mention, the text after the mention is removed, the
\* command and the tests made on the text.
Reading(m) ==
    LET is_group  == is_group_chat(m.chat_type)
        text0     == EffectiveText(m)
        mentioned == is_bot_mentioned(text0, m.entities, BOT_USERNAME)
        text      == IF is_group /\ REQUIRE_MENTION_IN_GROUPS /\ mentioned
                     THEN remove_bot_mention(text0, BOT_USERNAME)
                     ELSE text0
        parsed    == parse_image_command(text)
    IN  [is_group |-> is_group, mentioned |-> mentioned,
         command |-> parsed.command, no_prompt |-> (parsed.prompt = <<>>),
         help |-> (Strip(text) \in HelpCommands),
         blank |-> (text = <<>> \/ Strip(text) = <<>>),
         length |-> Len(text),
         valid |-> (parsed.command = "text" /\ ValidChat(text)
                       /\ Strip(text) \notin HelpCommands)]

\* The readings of the bodies the environment delivers
Readings == [m \in Messages |-> Reading(m)]

\* (variant: the help command passes the text limiter before it is answered)
GatesHelpCounted(r0, later) ==
    LET m       == r0.msg
        reading == Readings[m]
        same    == [requests |-> user_requests,
                    image_requests |-> user_image_requests, clock |-> now]
        r       == [r0 EXCEPT !.msg = NoMessage, !.is_reply_to_bot = FALSE]
        p       == [r EXCEPT !.command = reading.command]
    IN  IF m.from = NoUser \/ m.chat_id = 0
        THEN [h |-> Returned(r, "no_ids")] @@ same
        ELSE IF reading.is_group /\ GroupRefused(m.chat_id)
        THEN [h |-> Returned(r, "group_not_allowed")] @@ same
        ELSE IF reading.is_group /\ REQUIRE_MENTION_IN_GROUPS
                  /\ ~reading.mentioned /\ ~r0.is_reply_to_bot
        THEN [h |-> Returned(r, "not_mentioned")] @@ same
        ELSE IF ~reading.is_group /\ Unlisted(m.from, FALSE)
        THEN [h |-> Answered(r, "denied")] @@ same
        ELSE IF reading.is_group /\ Unlisted(m.from, TRUE)
        THEN [h |-> Returned(r, "unlisted_in_group")] @@ same
        ELSE IF reading.help
        THEN [h |-> Answered(p, "help"),
              requests |-> is_rate_limited(m.from).requests,
              image_requests |-> user_image_requests, clock |-> now]
        ELSE IF reading.command \in {"generate", "edit", "variation"}
        THEN ImageGate(p, m, reading.command, reading.no_prompt)
        ELSE TextGate(p, reading, later)

\* lines 524-621: what the handler does between the last await before the
\* gates and its next await.  r0.msg is the body, r0.is_reply_to_bot is set.
\* The result: the handler's record, the two dicts and the clock afterwards.
Gates(r0, later) ==
    LET m       == r0.msg
        reading == Readings[m]
        same    == [requests |-> user_requests,
                    image_requests |-> user_image_requests, clock |-> now]
        r       == [r0 EXCEPT !.msg = NoMessage, !.is_reply_to_bot = FALSE]
        p       == [r EXCEPT !.command = reading.command]
    IN  IF m.from = NoUser \/ m.chat_id = 0
        THEN [h |-> Returned(r, "no_ids")] @@ same
        ELSE IF reading.is_group /\ GroupRefused(m.chat_id)
        THEN [h |-> Returned(r, "group_not_allowed")] @@ same
        ELSE IF reading.is_group /\ REQUIRE_MENTION_IN_GROUPS
                  /\ ~reading.mentioned /\ ~r0.is_reply_to_bot
        THEN [h |-> Returned(r, "not_mentioned")] @@ same
        ELSE IF ~reading.is_group /\ Unlisted(m.from, FALSE)
        THEN [h |-> Answered(r, "denied")] @@ same
        ELSE IF reading.is_group /\ Unlisted(m.from, TRUE)
        THEN [h |-> Returned(r, "unlisted_in_group")] @@ same
        ELSE IF reading.help
        THEN [h |-> Answered(p, "help")] @@ same
        ELSE IF reading.command \in {"generate", "edit", "variation"}
        THEN ImageGate(p, m, reading.command, reading.no_prompt)
        ELSE TextGate(p, reading, later)

\* The texts that are a generate or edit token and nothing else
BareCommands == {TextBildBare, TextEditBare}

\* The texts that name the bot: @mybot in any casing, alone or as the
\* suffix of a command
Mentioning == {TextMention, TextMentionOnly, TextBildMention, TextHelpMention}

\* The message names the bot in its text or caption, or replies to a
\* message the bot has sent
Addressed(m) == EffectiveText(m) \in Mentioning \/ m.reply_to = BotId

\* lines 497-522: from the call to the first await.  The position "gates"
\* is no await: the handler runs on through the gates in the same step.
\* The record notes of the message who sent it (line 507), whether its chat
\* is a group (line 509), whether it is a chat text that passes the
\* validation of lines 791-805, whether its text is empty or whitespace and
\* whether it names the bot or replies to a message of the bot, and whether
\* it is a generate or edit command without a payload.
Entered(m) ==
    IF m.shape = "bad_json"
    THEN [Idle EXCEPT !.pc = "done", !.path = "bad_json", !.status = 400]
    ELSE IF m.shape = "no_message" THEN Returned(Idle, "no_message")
    ELSE [Idle EXCEPT !.pc = IF m.reply_to # 0 THEN "get_me" ELSE "gates",
                      !.msg = m, !.user = m.from,
                      !.group = Readings[m].is_group,
                      !.valid = Readings[m].valid,
                      !.blank = Readings[m].blank,
                      !.addressed = Addressed(m),
                      !.bare = EffectiveText(m) \in BareCommands]

\* line 521: await bot.get_me() returns, or raises
GotMe(r, ok) ==
    IF ok
    THEN [r EXCEPT !.pc = "gates", !.is_reply_to_bot = (r.msg.reply_to = BotId)]
    ELSE Raised([r EXCEPT !.msg = NoMessage])

\* (variant: after the notice of a failed download the handler does not
\* return but goes on to the image call and sends its result too)
ResumeNoReturn(r, ok) ==
    IF r.pc = "send" THEN Returned(r, r.path)
    ELSE IF r.pc = "progress"
        \* lines 658, 704, 747: await bot.send_chat_action(chat_id, "upload_photo")
    THEN [r EXCEPT !.pc = "chat_action"]
    ELSE IF r.pc = "chat_action"
    THEN IF ~ok THEN Raised([r EXCEPT !.indicator_failed = TRUE])
         ELSE IF r.path = "generate"
              \* lines 660-674: generate_image, then the error or the photo
         THEN [r EXCEPT !.pc = "send", !.images = @ + 1, !.replies = @ + 1]
              \* lines 707, 750: await download_telegram_photo(photo_file_id)
         ELSE [r EXCEPT !.pc = "download"]
    ELSE IF r.pc = "download"
    THEN IF ~ok
         \* lines 708-714, 751-757
         THEN [r EXCEPT !.pc = "send", !.path = "download_failed",
                        !.images = @ + 1, !.replies = @ + 2]
         \* lines 716-728, 759-771: edit_image / create_image_variation
         ELSE [r EXCEPT !.pc = "send", !.images = @ + 1, !.replies = @ + 1]
    ELSE IF r.pc = "typing"
         \* lines 810-821: the indicator's failure is swallowed; call_openai,
         \* then the answer is sent
    THEN [r EXCEPT !.pc = "send", !.indicator_failed = ~ok,
                   !.completions = @ + 1, !.replies = @ + 1]
    ELSE r

\* The handler resumes from an await after the gates; ok tells whether the
\* awaited call succeeded.  Nothing here touches the shared dicts.
Resume(r, ok) ==
    IF r.pc = "send" THEN Returned(r, r.path)
    ELSE IF r.pc = "progress"
        \* lines 658, 704, 747: await bot.send_chat_action(chat_id, "upload_photo")
    THEN [r EXCEPT !.pc = "chat_action"]
    ELSE IF r.pc = "chat_action"
    THEN IF ~ok THEN Raised([r EXCEPT !.indicator_failed = TRUE])
         ELSE IF r.path = "generate"
              \* lines 660-674: generate_image, then the error or the photo
         THEN [r EXCEPT !.pc = "send", !.images = @ + 1, !.replies = @ + 1]
              \* lines 707, 750: await download_telegram_photo(photo_file_id)
         ELSE [r EXCEPT !.pc = "download"]
    ELSE IF r.pc = "download"
    THEN IF ~ok
         \* lines 708-714, 751-757
         THEN [r EXCEPT !.pc = "send", !.path = "download_failed", !.replies = @ + 1]
         \* lines 716-728, 759-771: edit_image / create_image_variation
         ELSE [r EXCEPT !.pc = "send", !.images = @ + 1, !.replies = @ + 1]
    ELSE IF r.pc = "typing"
         \* lines 810-821: the indicator's failure is swallowed; call_openai,
         \* then the answer is sent
    THEN [r EXCEPT !.pc = "send", !.indicator_failed = ~ok,
                   !.completions = @ + 1, !.replies = @ + 1]
    ELSE r

\* The outcomes of the awaited collaborator calls of one invocation
Outcomes == [get_me : BOOLEAN, chat_action : BOOLEAN, download : BOOLEAN]

OutcomeAt(f, pc) ==
    IF pc = "get_me" THEN f.get_me
    ELSE IF pc \in {"chat_action", "typing"} THEN f.chat_action
    ELSE IF pc = "download" THEN f.download
    ELSE TRUE

\* The handler runs from an await after the gates to its return
RECURSIVE Finish(_, _)
Finish(r, f) ==
    IF r.pc = "done" THEN r ELSE Finish(Resume(r, OutcomeAt(f, r.pc)), f)

\* The outcomes that can make a difference from position pc on
OutcomesFrom(r) ==
    IF r.pc = "typing" \/ (r.pc = "progress" /\ r.path = "generate")
    THEN {f \in Outcomes : f.get_me /\ f.download}
    ELSE IF r.pc = "progress"
    THEN {f \in Outcomes : f.get_me /\ (f.chat_action \/ f.download)}
    ELSE {[get_me |-> TRUE, chat_action |-> TRUE, download |-> TRUE]}

\* The handler runs through the gates if that is where it stands
Through(r, later) ==
    IF r.pc = "gates" THEN [passed |-> TRUE] @@ Gates(r, later)
    ELSE [passed |-> FALSE, h |-> r, requests |-> user_requests,
          image_requests |-> user_image_requests, clock |-> now]

\* The readings a second time.time() can give to the handler in record r
LaterFor(r) ==
    IF r.pc = "gates" /\ Gates(r, now).h.path = "text_limited"
    THEN LaterReads ELSE {now}

-----------------------------------------------------------------------------
(* The history of admitted requests                                        *)

WindowTicks(class) == IF class = "text" THEN TextWindowTicks ELSE ImageWindowTicks
Limit(class) == IF class = "text" THEN RATE_LIMIT ELSE IMAGE_RATE_LIMIT

\* the timestamps of h inside the interval (t - window, t]
Trailing(h, t, window) == SelectSeq(h, LAMBDA x : x > t - window)

\* g is the step of a handler; if it passed the gates, at `now`, the
\* limiter's decision enters the history
AdmittedAfter(g) ==
    [c \in Classes |-> [u \in Users |->
        Trailing(IF g.passed /\ g.h.checked = c /\ ~g.h.limited /\ g.h.user = u
                 THEN Append(admitted[c][u], now) ELSE admitted[c][u],
                 g.clock, WindowTicks(c))]]

RefusedAfter(g) ==
    [c \in Classes |-> [u \in Users |->
        refused[c][u] \/ (g.passed /\ g.h.checked = c /\ g.h.limited /\ g.h.user = u)]]

-----------------------------------------------------------------------------------------------------------------------------------------------------
(* Actions                                                                 *)

\* The clock moves on
Advance ==
    /\ \E t \in Instants :
          /\ t > now
          /\ now' = t
          /\ admitted' = [c \in Classes |-> [u \in Users |->
                              Trailing(admitted[c][u], t, WindowTicks(c))]]
    /\ UNCHANGED <<user_requests, user_image_requests, ALLOWED_USERS,
                   ALLOWED_GROUPS, handlers, traffic, refused, arg, result>>

\* A handler has taken step g: through the gates, or local to the handler
Stepped(g) ==
    /\ user_requests' = g.requests
    /\ user_image_requests' = g.image_requests
    /\ now' = g.clock
    /\ admitted' = AdmittedAfter(g)
    /\ refused' = RefusedAfter(g)
    /\ UNCHANGED <<ALLOWED_USERS, ALLOWED_GROUPS, traffic, arg, result>>

\* telegram_webhook(req) from call to return, with no other handler
\* running in between (invocation h)
Webhook(h, m) ==
    /\ handlers[h].pc = "idle"
    /\ \E ok \in (IF m.reply_to # 0 THEN BOOLEAN ELSE {TRUE}) :
       \E e \in {Entered(m)} :
       \E a \in {IF e.pc = "get_me" THEN GotMe(e, ok) ELSE e} :
       \E later \in LaterFor(a) :
       \E g \in {Through(a, later)} :
          /\ \E f \in OutcomesFrom(g.h) :
                handlers' = [handlers EXCEPT ![h] = Finish(g.h, f)]
          /\ Stepped(g)

\* telegram_webhook(req) is called and runs to its first await
Receive(h, m) ==
    /\ handlers[h].pc = "idle"
    /\ \E e \in {Entered(m)} :
       \E later \in LaterFor(e) :
       \E g \in {Through(e, later)} :
          /\ handlers' = [handlers EXCEPT ![h] = g.h]
          /\ Stepped(g)

\* The call handler h awaits returns (ok) or raises, and the handler runs
\* to its next await or to its return
Continue(h) ==
    /\ handlers[h].pc \notin {"idle", "done"}
    /\ \E ok \in BOOLEAN :
       \E a \in {IF handlers[h].pc = "get_me" THEN GotMe(handlers[h], ok)
                 ELSE Resume(handlers[h], ok)} :
       \E later \in LaterFor(a) :
       \E g \in {Through(a, later)} :
          /\ handlers' = [handlers EXCEPT ![h] = g.h]
          /\ Stepped(g)

\* no text function is called on its own
NoArgument == [kind |-> "none", text |-> <<>>]
NoResult == [op |-> "none"]

\* The response of invocation h has gone out and its frame is discarded
Respond(h) ==
    /\ handlers[h].pc = "done"
    /\ handlers' = [handlers EXCEPT ![h] = Idle]
    /\ UNCHANGED <<now, user_requests, user_image_requests, ALLOWED_USERS,
                   ALLOWED_GROUPS, traffic, admitted, refused, arg, result>>

Start(kinds, users, groups) ==
    /\ now = 0
    /\ user_requests = <<>>
    /\ user_image_requests = <<>>
    /\ ALLOWED_USERS = users
    /\ ALLOWED_GROUPS \in groups
    /\ handlers = [h \in Handlers |-> Idle]
    /\ traffic \in kinds
    /\ admitted = [c \in Classes |-> [u \in Users |-> <<>>]]
    /\ refused = [c \in Classes |-> [u \in Users |-> FALSE]]
    /\ arg = NoArgument
    /\ result = NoResult

\* ALLOWED_USERS=1, ALLOWED_GROUPS=-100
Init == Start({"text", "image", "both"}, {1}, {{AllowedGroup}})

\* Deliveries are handled one at a time
Next ==
    \/ Advance
    \/ \E m \in Delivered : Webhook(1, m)
    \/ Respond(1)

Spec == Init /\ [][Next]_vars

\* ALLOWED_USERS unset; ALLOWED_GROUPS unset or -100
InitOpen == Start({"open"}, {}, {{}, {AllowedGroup}})

NextOpen ==
    \/ \E m \in Delivered : Webhook(1, m)
    \/ Respond(1)

SpecOpen == InitOpen /\ [][NextOpen]_vars

\* Deliveries are handled concurrently: the handlers interleave at their awaits
InitBurst == Start({"burst"}, {1}, {{AllowedGroup}})

NextBurst ==
    \E h \in Handlers :
        \/ \E m \in Delivered : Receive(h, m)
        \/ Continue(h)
        \/ Respond(h)

SpecBurst == InitBurst /\ [][NextBurst]_vars

-----------------------------------------------------------------------------
(* The text functions called on their own                                  *)

UpperChar(c) ==
    IF \E i \in 1..26 : LowerCase[i] = c
    THEN UpperCase[CHOOSE i \in 1..26 : LowerCase[i] = c]
    ELSE c

Upper(t) == [i \in 1..Len(t) |-> UpperChar(t[i])]

\* the command tokens, without the space that follows them
TokBild == SubSeq(CmdBild, 1, Len(CmdBild) - 1)
TokGenerate == SubSeq(CmdGenerate, 1, Len(CmdGenerate) - 1)
TokEdit == SubSeq(CmdEdit, 1, Len(CmdEdit) - 1)
TokBearbeite == SubSeq(CmdBearbeite, 1, Len(CmdBearbeite) - 1)
GenerateTokens == {TokBild, TokGenerate}
EditTokens == {TokEdit, TokBearbeite}
VariationTokens == {CmdVariation, CmdVariante}
Tokens ==
    GenerateTokens \cup EditTokens \cup VariationTokens \cup {TextHelp, TextHello}

\* a token as written, in capitals, or with its first letter in capitals
Casings == {"lower", "upper", "capital"}

Cased(token, casing) ==
    IF casing = "upper" THEN Upper(token)
    ELSE IF casing = "capital"
    THEN [i \in 1..Len(token) |-> IF i = 2 THEN UpperChar(token[i]) ELSE token[i]]
    ELSE token

\* What follows the token.  text: the characters; trimmed: the same without
\* whitespace at its end; spaced: a space and then a payload; payload: what
\* follows that space, without whitespace at its end.
Tails ==
    {[text |-> <<>>, trimmed |-> <<>>, spaced |-> FALSE, payload |-> <<>>],
     [text |-> <<" ">>, trimmed |-> <<>>, spaced |-> FALSE, payload |-> <<>>],
     [text |-> <<"x">>, trimmed |-> <<"x">>, spaced |-> FALSE, payload |-> <<>>],
     [text |-> <<" ", "a", " ", "R", "e", "d", " ", "a", "p", "p", "l", "e">>,
      trimmed |-> <<" ", "a", " ", "R", "e", "d", " ", "a", "p", "p", "l", "e">>,
      spaced |-> TRUE,
      payload |-> <<"a", " ", "R", "e", "d", " ", "a", "p", "p", "l", "e">>],
     [text |-> <<" ", " ", "X", " ">>, trimmed |-> <<" ", " ", "X">>,
      spaced |-> TRUE, payload |-> <<" ", "X">>]}

Leads == {<<>>, <<" ">>}

\* The texts handed to parse_image_command
CommandInputs ==
    {[kind |-> "command", lead |-> l, token |-> k, casing |-> c, tail |-> t,
      text |-> l \o Cased(k, c) \o t.text] :
        l \in Leads, k \in Tokens, c \in Casings, t \in Tails}

TextNested ==
    <<"@", "m", "y", "@", "m", "y", "b", "o", "t", "b", "o", "t", " ", "x">>
TextShout == <<"h", "i", " ", "@", "M", "Y", "B", "O", "T", " ">>

\* The texts handed to remove_bot_mention
MentionInputs ==
    {[kind |-> "mention", text |-> t] :
        t \in {TextHello, TextMention, TextMentionOnly, TextBildMention,
               TextHelpMention, TextNested, TextShout, TextSpaces, TextEmpty}}

\* command, prompt = parse_image_command(text)
Parse ==
    /\ arg.kind = "command"
    /\ result.op = "none"
    /\ result' = [op |-> "parse"] @@ parse_image_command(arg.text)
    /\ UNCHANGED <<now, user_requests, user_image_requests, ALLOWED_USERS,
                   ALLOWED_GROUPS, handlers, traffic, admitted, refused, arg>>

\* text = remove_bot_mention(text, BOT_USERNAME)
Clean ==
    /\ arg.kind = "mention"
    /\ result.op = "none"
    /\ result' = [op |-> "clean", text |-> remove_bot_mention(arg.text, BOT_USERNAME)]
    /\ UNCHANGED <<now, user_requests, user_image_requests, ALLOWED_USERS,
                   ALLOWED_GROUPS, handlers, traffic, admitted, refused, arg>>

\* remove_bot_mention is applied to its own result
CleanAgain ==
    /\ result.op = "clean"
    /\ result' = [op |-> "again", first |-> result.text,
                  text |-> remove_bot_mention(result.text, BOT_USERNAME)]
    /\ UNCHANGED <<now, user_requests, user_image_requests, ALLOWED_USERS,
                   ALLOWED_GROUPS, handlers, traffic, admitted, refused, arg>>

InitText ==
    /\ now = 0
    /\ user_requests = <<>>
    /\ user_image_requests = <<>>
    /\ ALLOWED_USERS = {1}
    /\ ALLOWED_GROUPS = {AllowedGroup}
    /\ handlers = [h \in Handlers |-> Idle]
    /\ traffic = "none"
    /\ admitted = [c \in Classes |-> [u \in Users |-> <<>>]]
    /\ refused = [c \in Classes |-> [u \in Users |-> FALSE]]
    /\ arg \in CommandInputs \cup MentionInputs
    /\ result = NoResult

NextText == Parse \/ Clean \/ CleanAgain

SpecText == InitText /\ [][NextText]_vars

-----------------------------------------------------------------------------
(* Properties                                                              *)

\* The stored log of a class for a user
Stored(class, user_id) ==
    IF class = "text" THEN Get(user_requests, user_id)
    ELSE Get(user_image_requests, user_id)

\* C1: for each user and each request class, the requests admitted in any
\* trailing window of the class's length never number more than the class's
\* limit (10 in 60 s for text, 5 in 300 s for images), the clock never
\* running backwards.
C1_AdmittedWithinLimit ==
    \A c \in Classes, u \in Users : Len(admitted[c][u]) <= Limit(c)

\* A full image window whose admissions are spread over two instants, and a
\* further request that has been rejected
C1_Witness ==
    /\ handlers[1].pc = "done"
    /\ handlers[1].path = "image_limited"
    /\ Len(admitted["image"][1]) = IMAGE_RATE_LIMIT
    /\ admitted["image"][1][1] < admitted["image"][1][IMAGE_RATE_LIMIT]

\* C2: a request issued immediately after the one that filled the window is
\* rejected with a reported wait that is strictly positive.
C2_RejectionShowsPositiveWait ==
    \A h \in Handlers :
        LET r == handlers[h]
        IN  (/\ r.pc = "done"
             /\ r.path \in {"text_limited", "image_limited"}
             /\ Stored(r.checked, r.user) # <<>>
             /\ Stored(r.checked, r.user)[Len(Stored(r.checked, r.user))] = now)
            => r.shown > 0

\* C3: when the handlers of several requests of one user interleave at
\* their awaits, the limiter still admits no more than the limit, and no
\* admitted request's timestamp is lost from the stored log (the log is
\* exactly the admitted requests).
C3_NoLostAppend ==
    \A c \in Classes, u \in Users :
        /\ Len(admitted[c][u]) <= Limit(c)
        /\ Stored(c, u) = admitted[c][u]

\* Two invocations for the same user in flight at once, both past the text
\* limiter: one admitted and suspended at an await, the other rejected
C3_Witness ==
    \E h1, h2 \in Handlers :
        /\ h1 # h2
        /\ handlers[h1].user = handlers[h2].user
        /\ handlers[h1].checked = "text" /\ ~handlers[h1].limited
        /\ handlers[h1].pc = "typing"
        /\ handlers[h2].checked = "text" /\ handlers[h2].limited
        /\ handlers[h2].pc = "send"
        /\ Len(admitted["text"][handlers[h1].user]) = RATE_LIMIT

\* Invocation h runs from its call to its return in this step
Handled(h) == handlers[h].pc = "idle" /\ handlers'[h].pc = "done"

\* C4: the text class and the image class are independent.  A handler that
\* consults no image limiter leaves the image log as it is, one that
\* consults no text limiter leaves the text log as it is, and a request is
\* rejected only when its own class's admitted requests fill the window,
\* however many the other class has admitted.
C4_ClassesIndependent ==
    [][\A h \in Handlers :
          Handled(h) =>
            LET r == handlers'[h]
            IN  /\ r.checked # "image" => user_image_requests' = user_image_requests
                /\ r.checked # "text" => user_requests' = user_requests
                /\ r.limited =>
                      Len(admitted[r.checked][r.user]) >= Limit(r.checked)]_vars

\* The text window is full and a text request has been rejected; the image
\* command that follows is admitted as the first of its class
C4_Witness ==
    /\ handlers[1].pc = "done"
    /\ handlers[1].path = "generate"
    /\ ~handlers[1].limited
    /\ refused["text"][1]
    /\ admitted["text"][1] = [i \in 1..RATE_LIMIT |-> now]
    /\ admitted["image"][1] = <<now>>

\* C5: after a rejection the stored log of the class equals the log pruned
\* at the time of the call: it holds no timestamp that has left the
\* window, and it has not grown.
C5_RejectionLeavesPrunedLog ==
    [][\A h \in Handlers :
          (Handled(h) /\ handlers'[h].limited) =>
            LET c      == handlers'[h].checked
                u      == handlers'[h].user
                before == Stored(c, u)
                after  == IF c = "text" THEN Get(user_requests', u)
                          ELSE Get(user_image_requests', u)
            IN  /\ after = Trailing(before, now, WindowTicks(c))
                /\ \A i \in 1..Len(after) : now - after[i] < WindowTicks(c)
                /\ Len(after) <= Len(before)]_vars

\* A rejection at a time when earlier entries have already been pruned and
\* the log holds timestamps of two instants
C5_Witness ==
    /\ handlers[1].pc = "done"
    /\ handlers[1].path = "text_limited"
    /\ Len(Stored("text", handlers[1].user)) = RATE_LIMIT
    /\ Stored("text", handlers[1].user)[1] > 0
    /\ Stored("text", handlers[1].user)[1]
          < Stored("text", handlers[1].user)[RATE_LIMIT]

\* C6: a user who has been rejected is admitted again by the next check
\* made once the clock has reached the end of the window that began with
\* the oldest request in the stored log.
C6_AdmittedAfterWindow ==
    [][\A h \in Handlers :
          (Handled(h) /\ handlers'[h].checked \in Classes) =>
            LET c   == handlers'[h].checked
                u   == handlers'[h].user
                log == Stored(c, u)
            IN  (refused[c][u] /\ log # <<>> /\ now >= log[1] + WindowTicks(c))
                    => ~handlers'[h].limited]_vars

\* A user rejected by the image limiter before, admitted when the window of
\* the first request is over
C6_Witness ==
    /\ handlers[1].pc = "done"
    /\ handlers[1].checked = "image"
    /\ ~handlers[1].limited
    /\ refused["image"][handlers[1].user]
    /\ now >= ImageWindowTicks
    /\ Stored("image", handlers[1].user) = <<now>>

\* C7: with no user on the allow-list every inbound message is rejected:
\* none reaches the help text, a limiter, the completion call or an image
\* call.
C7_EmptyAllowListRejectsAll ==
    ALLOWED_USERS = {} =>
        \A h \in Handlers :
            /\ handlers[h].path # "help"
            /\ handlers[h].checked = "none"
            /\ handlers[h].completions = 0
            /\ handlers[h].images = 0

SilentPaths ==
    {"none", "bad_json", "no_message", "no_ids", "group_not_allowed",
     "not_mentioned", "unlisted_in_group", "empty"}

ImagePaths == {"generate", "edit", "variation", "download_failed"}

\* C10 as stated: every handled message produces at most one outward reply.
C10_AtMostOneReply ==
    \A h \in Handlers : handlers[h].replies <= 1

\* C10, amended: every handled message produces at most two outward
\* replies.  A silently ignored message produces none; an image command
\* that passes its gates produces the progress notice and then at most one
\* more, the photo or the failure notice; every other handled message
\* produces exactly one.
C10_AtMostTwoReplies ==
    \A h \in Handlers :
        LET r == handlers[h]
        IN  r.pc = "done" =>
              /\ r.replies <= 2
              /\ r.path \in SilentPaths => r.replies = 0
              /\ r.path \in ImagePaths =>
                    r.replies = IF r.indicator_failed THEN 1 ELSE 2
              /\ r.path \notin SilentPaths \cup ImagePaths => r.replies = 1

\* An image command has been served: progress notice and photo
C10_Witness ==
    /\ handlers[1].pc = "done"
    /\ handlers[1].path = "generate"
    /\ handlers[1].images = 1
    /\ handlers[1].replies = 2

\* C11 as stated: a chat message that passed the text limiter is answered
\* with a rejection reply and no completion call when its text is empty,
\* whitespace or longer than 2000 characters, and with the relayed answer of
\* exactly one completion call otherwise.
C11_InvalidTextAnswered ==
    \A h \in Handlers :
        LET r == handlers[h]
        IN  (r.pc = "done" /\ r.checked = "text" /\ ~r.limited) =>
              IF r.valid
              THEN r.path = "chat" /\ r.completions = 1 /\ r.replies = 1
              ELSE r.completions = 0 /\ r.replies = 1

\* C11, amended: a chat message that passed the text limiter is ignored
\* without a reply when its text is empty or whitespace, is answered with
\* the too-long notice when it is longer than 2000 characters, in both cases
\* with no completion call, and is otherwise answered with the relayed
\* answer of exactly one completion call.
C11_InvalidTextHandled ==
    \A h \in Handlers :
        LET r == handlers[h]
        IN  (r.pc = "done" /\ r.checked = "text" /\ ~r.limited) =>
              IF r.valid
              THEN r.path = "chat" /\ r.completions = 1 /\ r.replies = 1
              ELSE IF r.blank
              THEN r.path = "empty" /\ r.completions = 0 /\ r.replies = 0
              ELSE r.path = "too_long" /\ r.completions = 0 /\ r.replies = 1

\* A whitespace-only text has passed the limiter and has been dropped
C11_Witness ==
    /\ handlers[1].pc = "done"
    /\ handlers[1].checked = "text"
    /\ ~handlers[1].limited
    /\ handlers[1].blank
    /\ handlers[1].path = "empty"
    /\ handlers[1].user \in ALLOWED_USERS

C13_ParseAnyCasing ==
    result.op = "parse" =>
        IF arg.token \in GenerateTokens /\ arg.tail.spaced
        THEN result.command = "generate" /\ result.prompt = arg.tail.payload
        ELSE IF arg.token \in EditTokens /\ arg.tail.spaced
        THEN result.command = "edit" /\ result.prompt = arg.tail.payload
        ELSE IF arg.token \in VariationTokens
        THEN result.command = "variation"
        ELSE /\ result.command = "text"
             /\ result.prompt = Cased(arg.token, arg.casing) \o arg.tail.trimmed

\* C13, amended: the command token is recognised only as written, in lower
\* case.  `/bild` or `/generate` followed by a space and a payload yields
\* generate, `/edit` or `/bearbeite` followed by a space and a payload
\* yields edit, both with the payload as written; a text that begins with
\* `/variation` or `/variante` yields variation with an empty payload; any
\* other text, a token in another casing included, yields chat with the
\* whole trimmed text as payload.
C13_ParseLowerCaseOnly ==
    result.op = "parse" =>
        IF arg.casing = "lower" /\ arg.token \in GenerateTokens /\ arg.tail.spaced
        THEN result.command = "generate" /\ result.prompt = arg.tail.payload
        ELSE IF arg.casing = "lower" /\ arg.token \in EditTokens /\ arg.tail.spaced
        THEN result.command = "edit" /\ result.prompt = arg.tail.payload
        ELSE IF arg.casing = "lower" /\ arg.token \in VariationTokens
        THEN result.command = "variation" /\ result.prompt = <<>>
        ELSE /\ result.command = "text"
             /\ result.prompt = Cased(arg.token, arg.casing) \o arg.tail.trimmed

\* `/BILD a Red apple` has been classified as chat
C13_Witness ==
    /\ result.op = "parse"
    /\ arg.token = TokBild
    /\ arg.casing = "upper"
    /\ arg.tail.spaced
    /\ result.command = "text"

\* C14: a generate or edit command without a payload (the bare token) is
\* classified as that image command and is never forwarded to the image
\* call or to the completion call.
C14_BareCommandRejected ==
    \A h \in Handlers :
        LET r == handlers[h]
        IN  (/\ r.pc = "done"
             /\ r.bare
             /\ ~r.raised
             /\ ~r.group
             /\ r.user \in ALLOWED_USERS)
            => /\ r.command \in {"generate", "edit"}
               /\ r.completions = 0
               /\ r.images = 0

\* C15: the result of remove_bot_mention contains no occurrence of the
\* handle in any casing, a second application changes nothing, and
\* `/bild@mybot a cat` gives `/bild a cat`.
C15_MentionRemoved ==
    /\ result.op \in {"clean", "again"} =>
          ~Contains(Lower(result.text), Lower(MentionPattern(BOT_USERNAME)))
    /\ result.op = "again" => result.text = result.first
    /\ (result.op = "clean" /\ arg.text = TextBildMention) => result.text = TextBild

\* C16: a failure of send_chat_action is swallowed on every path: the
\* handler does not end in an exception, the completion or image call that
\* follows is made and the reply is sent.
C16_IndicatorBestEffort ==
    \A h \in Handlers :
        LET r == handlers[h]
        IN  (r.pc = "done" /\ r.indicator_failed) =>
              /\ ~r.raised
              /\ r.path = "chat" => r.completions = 1 /\ r.replies = 1
              /\ r.path = "generate" => r.images = 1 /\ r.replies = 2
              /\ r.path \in {"edit", "variation"} => r.replies = 2

\* C17: every invocation of the webhook ends with a response.  The
\* response has status 400 exactly when the body was no parseable JSON; in
\* every other case, an exception raised while the message was handled
\* included, it is a normal response (status 200).
C17_AlwaysAcknowledged ==
    \A h \in Handlers :
        LET r == handlers[h]
        IN  /\ r.pc \in {"idle", "done"}
            /\ r.pc = "done" =>
                  r.status = IF r.path = "bad_json" THEN 400 ELSE 200

\* An exception raised while a message was handled has been answered with
\* a normal response
C17_Witness ==
    /\ handlers[1].pc = "done"
    /\ handlers[1].raised
    /\ handlers[1].status = 200

StoppedPaths ==
    {"no_message", "no_ids", "group_not_allowed", "not_mentioned", "denied",
     "unlisted_in_group", "help"}

\* C18: a message stopped before the limiters (no message, no user or chat
\* id, group not allowed, bot not addressed in a group, user not on the
\* allow-list, help command) leaves user_requests and user_image_requests
\* as they are; each of the two logs changes only in a handler that passed
\* the limiter of its class and was admitted.
C18_StoppedMessagesKeepQuota ==
    [][/\ \A h \in Handlers :
             (Handled(h) /\ handlers'[h].path \in StoppedPaths) =>
                 /\ user_requests' = user_requests
                 /\ user_image_requests' = user_image_requests
       /\ user_requests' # user_requests =>
             \E h \in Handlers :
                 /\ Handled(h)
                 /\ handlers'[h].checked = "text"
                 /\ ~handlers'[h].limited
       /\ user_image_requests' # user_image_requests =>
             \E h \in Handlers :
                 /\ Handled(h)
                 /\ handlers'[h].checked = "image"
                 /\ ~handlers'[h].limited]_vars

\* The help command of a user whose text log is not empty has been
\* answered
C18_Witness ==
    /\ handlers[1].pc = "done"
    /\ handlers[1].path = "help"
    /\ Len(Stored("text", handlers[1].user)) = 1
    /\ Len(admitted["text"][handlers[1].user]) = 1

\* the logs of dict d have between 1 and limit timestamps, none of them
\* later than the clock, in non-decreasing order
LogsInOrder(d, limit) ==
    \A u \in DOMAIN d :
        /\ Len(d[u]) >= 1
        /\ Len(d[u]) <= limit
        /\ \A i \in 1..Len(d[u]) : d[u][i] <= now
        /\ \A i, j \in 1..Len(d[u]) : i < j => d[u][i] <= d[u][j]

\* C19: in every reachable state each log of user_requests has between 1
\* and RATE_LIMIT timestamps and each log of user_image_requests between 1
\* and IMAGE_RATE_LIMIT, in non-decreasing order; and a key that is present
\* in one of the dicts stays present.
C19_LogsWellFormed ==
    /\ [](LogsInOrder(user_requests, RATE_LIMIT)
            /\ LogsInOrder(user_image_requests, IMAGE_RATE_LIMIT))
    /\ [][/\ DOMAIN user_requests \subseteq DOMAIN user_requests'
          /\ DOMAIN user_image_requests \subseteq DOMAIN user_image_requests']_vars

\* Both dicts hold a log of the user, the image log full and with
\* timestamps of two instants, the text log older than its window
C19_Witness ==
    /\ 1 \in DOMAIN user_requests
    /\ 1 \in DOMAIN user_image_requests
    /\ Len(user_image_requests[1]) = IMAGE_RATE_LIMIT
    /\ user_image_requests[1][1] < user_image_requests[1][IMAGE_RATE_LIMIT]
    /\ now - user_requests[1][1] >= TextWindowTicks

====
